---- MODULE Spec2Model ----
(***************************************************************************)
(* The download engine of wuwa-downloader: download_resources (io/util.rs), *)
(* download_file and download_single_file (network/client.rs),              *)
(* check_existing_file and calculate_md5 (io/file.rs), the Ctrl-C handler,  *)
(* the title (reporter) thread and the end of main.                         *)
(*                                                                         *)
(* One step of the download thread holds at most one access to a shared     *)
(* atomic (should_stop, downloaded_bytes, total_bytes, success) or one      *)
(* network request, so that the Ctrl-C handler and the reporter interleave  *)
(* at every point where the code can observe them.                          *)
(*                                                                         *)
(* An optional value (Rust's Option) is a set: {} is None, {v} is Some(v).  *)
(* File contents are sequences of bytes; sizes are counted in bytes.        *)
(***************************************************************************)
EXTENDS Integers, Sequences, FiniteSets, TLC

\* ---- bounds of the model ------------------------------------------------
NFiles == 2        \* most entries a manifest has (resources.len())
NMirrors == 2      \* most mirrors a configuration has (config.zip_bases.len())
MaxLen == 2        \* longest content a mirror serves, in bytes
MaxUrl == 2        \* longest mirror base and longest dest, in characters
MaxSecs == 2       \* most seconds elapsed when the title thread builds a title
BUFFER_SIZE == 1   \* bytes one read of the body returns at most (262144 in the source)

\* ---- program constants --------------------------------------------------
MAX_RETRIES == 3

\* The contents a file can have, on a mirror or on disk before the run: the
\* genuine file of n bytes, and a copy of it whose last byte differs (a
\* corrupted or foreign file of the same length).
Genuine(n) == [i \in 1..n |-> 1]
Corrupt(n) == [i \in 1..n |-> IF i = n THEN 2 ELSE 1]
Contents == {Genuine(n) : n \in 0..MaxLen} \cup {Corrupt(n) : n \in 1..MaxLen}

None == {}
Some(v) == {v}
Get(o) == CHOOSE v \in o : TRUE

\* ---- io/file.rs ---------------------------------------------------------
RECURSIVE Md5Fold(_, _)
Md5Fold(c, h) == IF c = <<>> THEN h ELSE Md5Fold(Tail(c), 3 * h + Head(c))

\* calculate_md5 of a content: the digest, a number that differs for
\* different contents (a leading 1 followed by the bytes as base-3 digits).
Md5(c) == Md5Fold(c, 1)

\* calculate_md5(path) on the file at path
calculate_md5(f) == Md5(Get(f))

\* The digest is compared as the string format!("{:x}", ..) makes of it, in
\* lower case. A manifest may spell the same digest in upper case: another
\* string, written here as the negative of the number.
Upper(h) == 0 - h

\* check_existing_file that turns down a file when an expectation is missing
check_existing_file_Strict(f, expected_md5, size) ==
    IF f = None THEN FALSE
    ELSE IF size = None \/ Len(Get(f)) # Get(size) THEN FALSE
    ELSE IF expected_md5 = None \/ calculate_md5(f) # Get(expected_md5) THEN FALSE
    ELSE TRUE

\* check_existing_file that forgets the digest
check_existing_file_SizeOnly(f, expected_md5, size) ==
    IF f = None THEN FALSE
    ELSE IF size # None /\ Len(Get(f)) # Get(size) THEN FALSE
    ELSE TRUE

\* check_existing_file that takes an empty file for a missing one
check_existing_file_NonEmpty(f, expected_md5, size) ==
    IF f = None \/ f = Some(<<>>) THEN FALSE
    ELSE IF size # None /\ Len(Get(f)) # Get(size) THEN FALSE
    ELSE IF expected_md5 # None /\ calculate_md5(f) # Get(expected_md5) THEN FALSE
    ELSE TRUE

\* check_existing_file(path, expected_md5, expected_size) on the file `f`
\* found at path (None: the path does not exist).
check_existing_file(f, expected_md5, size) ==
    IF f = None THEN FALSE
    ELSE IF size # None /\ Len(Get(f)) # Get(size) THEN FALSE
    ELSE IF expected_md5 # None /\ calculate_md5(f) # Get(expected_md5) THEN FALSE
    ELSE TRUE

\* ---- network/client.rs --------------------------------------------------
\* a pre-check that never lets a file through
should_skip_download_Never(f, expected_md5, size) == FALSE

should_skip_download(f, expected_md5, size) ==
    IF expected_md5 # None /\ size # None
    THEN check_existing_file(f, expected_md5, size)
    ELSE FALSE

\* What a HEAD request can come back with: a transport error, or a response
\* with a status (success or not) and an optional content-length.
HeadResponses ==
    [kind : {"err"}, len : {None}]
    \cup [kind : {"bad", "ok"}, len : {None} \cup {Some(n) : n \in 0..MaxLen}]

\* The entries the manifest can hold: with or without "dest", with or
\* without "md5".
Items == [dest : BOOLEAN, md5 : {None} \cup {Some(Md5(Genuine(n))) : n \in 0..MaxLen}]

\* What can be at <folder>/<dest> before the entry is processed.
LocalFiles == {None} \cup {Some(c) : c \in Contents}

VARIABLES
    pc,               \* position of the main thread
    total_files,      \* resources.len(): the number of manifest entries
    zip_bases,        \* config.zip_bases.len(): the number of mirrors
    total_size,       \* main: what calculate_total_size returned
    base_url,         \* a mirror base of config.zip_bases, as a string
    dest,             \* the "dest" of a manifest entry, as a string
    requested,        \* the URLs built for dest on base_url, in order
    cur,              \* index of the manifest entry of download_resources' loop
    expected_md5,     \* download_file: the entry's md5
    disk,             \* the file at folder.join(dest) of the entry in progress
    mi,               \* index of base_url in the loop in progress
    file_size,        \* download_file: file_size
    expected_size,    \* download_file: expected_size
    head_response,    \* download_file: head_response of the second loop, while
                      \*   it is read (up to the pre-check of the mirror)
    retries,          \* download_file: retries
    downloaded,       \* download_single_file: downloaded
    body,             \* the part of the response body not yet read
    result,           \* what download_file returned
    log,              \* the entries log_error wrote for the entry in progress
    should_stop,      \* AtomicBool shared with the handler and the reporter
    total_bytes,      \* progress.total_bytes
    downloaded_bytes, \* progress.downloaded_bytes
    success,          \* AtomicUsize success
    rpc,              \* position of the title thread
    title,            \* title thread: the values one iteration has loaded
    \* history of the run, read by the properties only
    why,              \* the return statement download_file left by
    cancel,           \* when Ctrl-C came: where the main thread was ("start",
                      \*   "stream", "other"), at which entry, and success then
    lateChunks,       \* chunks this attempt wrote since should_stop was set
    heads,            \* HEAD requests sent for the entry in progress
    attempts,         \* per mirror: GET requests sent for the entry
    failures,         \* per mirror: attempts that returned Err
    served,           \* the content the mirror held at the last GET
    before,           \* the local file when the last attempt started
    error             \* the Err(e) the match in download_file was handed, "" if none

entry == <<cur, expected_md5>>
probe == <<mi, file_size, expected_size, head_response>>
budget == <<retries, attempts, failures>>
attempt == <<downloaded, body, served, before, error>>
xfer == <<budget, attempt, lateChunks>>
ret == <<result, why, log>>
counters == <<total_bytes, downloaded_bytes, success>>
urls == <<base_url, dest, requested>>
inputs == <<total_files, zip_bases, total_size, urls>>
others == <<inputs, rpc, title, cancel>>
vars == <<pc, entry, disk, probe, xfer, heads, ret, should_stop, counters, others>>

Mirrors == 1..NMirrors
NoAttempts == [m \in Mirrors |-> 0]
NotCancelled == [at |-> "", cur |-> 0, success |-> 0]
NotLoaded == [downloaded_bytes |-> None, total_bytes |-> None, current_success |-> None]

\* The state in which download_resources is entered: track_progress(total_size)
\* made the shared atomics, total_bytes starting at the pre-pass total. Fresh:
\* the atomics but total_bytes, and the locals no call has touched yet.
Fresh ==
    /\ base_url = <<>> /\ dest = <<>> /\ requested = <<>>
    /\ mi = 1
    /\ head_response = None
    /\ file_size = None
    /\ retries = 0
    /\ downloaded = 0
    /\ body = <<>>
    /\ result = FALSE
    /\ log = <<>>
    /\ should_stop = FALSE
    /\ downloaded_bytes = 0
    /\ success = 0
    /\ rpc = "check"
    /\ title = NotLoaded
    /\ why = ""
    /\ cancel = NotCancelled
    /\ lateChunks = 0
    /\ heads = 0
    /\ attempts = NoAttempts
    /\ failures = NoAttempts
    /\ served = None
    /\ before = None
    /\ error = ""

Begin(size) ==
    /\ pc = "loop"
    /\ total_size = size
    /\ total_bytes = size
    /\ total_files \in 1..NFiles
    /\ zip_bases \in 1..NMirrors
    /\ cur = 1
    /\ expected_md5 = None
    /\ disk = None
    /\ expected_size = None
    /\ Fresh

\* A run whose pre-pass (calculate_total_size) determined no size.
Init == Begin(0)

Min(a, b) == IF a < b THEN a ELSE b

\* The return statements of download_file that follow a log_error call:
\* "Directory error", "Failed after retries", "Checksum failed", "All CDNs
\* failed".
LoggedReturns == {"dir", "retries", "checksum", "allfailed"}

\* download_file returns r through the return statement named w
Return(r, w) ==
    /\ pc' = "ret"
    /\ result' = r
    /\ why' = w
    /\ log' = IF w \in LoggedReturns THEN Append(log, w) ELSE log

\* download_single_file is left: its locals and its response are dropped
Dropped ==
    /\ downloaded' = 0
    /\ body' = <<>>

\* download_single_file returns Err(e): the match in download_file goes to
\* its Err arm
Err(e) ==
    /\ pc' = "failed"
    /\ Dropped
    /\ served' = None
    /\ before' = None
    /\ error' = e

\* ---- io/util.rs: download_resources ---------------------------------------
\* a for loop that runs one entry past the end of the manifest
Loop_OnePast ==
    /\ pc = "loop"
    /\ IF cur > total_files + 1 \/ should_stop
       THEN /\ pc' = "returned"
            /\ UNCHANGED <<entry, disk>>
       ELSE \E item \in Items, f \in LocalFiles :
              IF item.dest
              THEN /\ pc' = "entry"
                   /\ expected_md5' = item.md5
                   /\ disk' = f
                   /\ UNCHANGED cur
              ELSE /\ pc' = "loop"
                   /\ cur' = cur + 1
                   /\ UNCHANGED <<expected_md5, disk>>
    /\ UNCHANGED <<probe, xfer, heads, ret, should_stop, counters, others>>

\* The head of the for loop: the flag, then the entry with its dest and md5.
\* The entry and the file at its path are inputs of the run.
Loop ==
    /\ pc = "loop"
    /\ IF cur > total_files \/ should_stop
       THEN /\ pc' = "returned"
            /\ UNCHANGED <<entry, disk>>
       ELSE \E item \in Items, f \in LocalFiles :
              IF item.dest
              THEN /\ pc' = "entry"
                   /\ expected_md5' = item.md5
                   /\ disk' = f
                   /\ UNCHANGED cur
              ELSE /\ pc' = "loop"
                   /\ cur' = cur + 1
                   /\ UNCHANGED <<expected_md5, disk>>
    /\ UNCHANGED <<probe, xfer, heads, ret, should_stop, counters, others>>

\* a loop that gives up the batch at the first entry that failed
Ret_AbortOnFailure ==
    /\ pc = "ret"
    /\ success' = IF result THEN success + 1 ELSE success
    /\ cur' = IF result THEN cur + 1 ELSE cur
    /\ pc' = IF result THEN "loop" ELSE "returned"
    /\ expected_md5' = None /\ disk' = None /\ mi' = 1 /\ file_size' = None
    /\ expected_size' = None /\ head_response' = None /\ retries' = 0 /\ downloaded' = 0 /\ body' = <<>>
    /\ why' = "" /\ log' = <<>> /\ lateChunks' = 0 /\ heads' = 0 /\ attempts' = NoAttempts
    /\ failures' = NoAttempts /\ served' = None /\ before' = None /\ error' = ""
    /\ UNCHANGED <<result, should_stop, total_bytes, downloaded_bytes, others>>

\* download_file returned: count the success, go to the next entry.
Ret ==
    /\ pc = "ret"
    /\ success' = IF result THEN success + 1 ELSE success
    /\ cur' = cur + 1
    /\ pc' = "loop"
    /\ expected_md5' = None /\ disk' = None /\ mi' = 1 /\ file_size' = None
    /\ expected_size' = None /\ head_response' = None /\ retries' = 0 /\ downloaded' = 0 /\ body' = <<>>
    /\ why' = "" /\ log' = <<>> /\ lateChunks' = 0 /\ heads' = 0 /\ attempts' = NoAttempts
    /\ failures' = NoAttempts /\ served' = None /\ before' = None /\ error' = ""
    /\ UNCHANGED <<result, should_stop, total_bytes, downloaded_bytes, others>>

\* ---- network/client.rs: download_file --------------------------------------
\* download_file without the flag check at its entry
Entry_Unchecked ==
    /\ pc = "entry"
    /\ pc' = "probe"
    /\ mi' = 1
    /\ file_size' = None
    /\ UNCHANGED <<entry, disk, expected_size, head_response, xfer, heads, ret,
                   should_stop, counters, others>>

Entry ==
    /\ pc = "entry"
    /\ IF should_stop
       THEN /\ Return(FALSE, "stop")
            /\ UNCHANGED <<mi, file_size>>
       ELSE /\ pc' = "probe"
            /\ mi' = 1
            /\ file_size' = None
            /\ UNCHANGED ret
    /\ UNCHANGED <<entry, disk, expected_size, head_response, xfer, heads, should_stop,
                   counters, others>>

\* One turn of the first loop over zip_bases: the flag, then the HEAD; any
\* answer that carries a content-length sets file_size and ends the loop.
Probe ==
    /\ pc = "probe"
    /\ IF mi > zip_bases
       THEN /\ pc' = "precheck"
            /\ UNCHANGED <<mi, file_size, total_bytes, ret, heads>>
       ELSE IF should_stop
       THEN /\ Return(FALSE, "stop")
            /\ UNCHANGED <<mi, file_size, total_bytes, heads>>
       ELSE \E r \in HeadResponses :
            /\ heads' = heads + 1
            /\ IF r.kind # "err" /\ r.len # None
               THEN /\ file_size' = r.len
                    /\ total_bytes' = total_bytes + Get(r.len)
                    /\ pc' = "precheck"
                    /\ UNCHANGED mi
               ELSE /\ mi' = mi + 1
                    /\ pc' = "probe"
                    /\ UNCHANGED <<file_size, total_bytes>>
            /\ UNCHANGED ret
    /\ UNCHANGED <<entry, disk, expected_size, head_response, xfer, should_stop,
                   downloaded_bytes, success, others>>

\* The pre-check with the globally probed size, then create_dir_all.
Precheck ==
    /\ pc = "precheck"
    /\ IF should_skip_download(disk, expected_md5, file_size)
       THEN /\ Return(TRUE, "valid")
            /\ UNCHANGED mi
       ELSE \/ /\ Return(FALSE, "dir")
               /\ UNCHANGED mi
            \/ /\ pc' = "mirror"
               /\ mi' = 1
               /\ UNCHANGED ret
    /\ UNCHANGED <<entry, disk, file_size, expected_size, head_response, xfer, heads,
                   should_stop, counters, others>>

\* expected_size of the second loop: file_size.or_else(this mirror's length)
ExpectedSize(global, len) == IF global # None THEN global ELSE len

\* One turn of the second loop over zip_bases, up to `let mut retries`; a
\* HEAD that fails is logged ("CDN i failed").
Mirror ==
    /\ pc = "mirror"
    /\ IF mi > zip_bases
       THEN /\ Return(FALSE, "allfailed")
            /\ UNCHANGED <<mi, expected_size, head_response, retries, heads>>
       ELSE \E r \in HeadResponses :
            /\ heads' = heads + 1
            /\ IF r.kind # "ok"
               THEN /\ mi' = mi + 1
                    /\ log' = Append(log, "cdn")
                    /\ UNCHANGED <<pc, result, why, expected_size, head_response,
                                   retries>>
               ELSE LET size == ExpectedSize(file_size, r.len) IN
                    /\ head_response' = Some(r)
                    /\ expected_size' = size
                    /\ IF expected_md5 # None /\ size # None
                          /\ check_existing_file(disk, expected_md5, size)
                       THEN /\ Return(TRUE, "valid")
                            /\ UNCHANGED retries
                       ELSE /\ pc' = "attempt"
                            /\ retries' = MAX_RETRIES
                            /\ UNCHANGED ret
                    /\ UNCHANGED mi
    /\ UNCHANGED <<entry, disk, file_size, attempts, failures, attempt, lateChunks,
                   should_stop, counters, others>>

\* What a GET can come back with when the mirror holds content c and the
\* request asked for the bytes from `off` on (off = 0: no Range header):
\* a transport error, an error status, 416 when the range starts at or past
\* the end, 206 with the rest of c, or 200 with all of c (a mirror that
\* ignores Range answers a ranged request with 200 too).
GetResponses(c, off) ==
    {[status |-> "neterr", body |-> <<>>], [status |-> "http", body |-> <<>>]}
    \cup {[status |-> "200", body |-> c]}
    \cup (IF off > 0 /\ off >= Len(c)
          THEN {[status |-> "416", body |-> <<>>]} ELSE {})
    \cup (IF off > 0 /\ off < Len(c)
          THEN {[status |-> "206", body |-> SubSeq(c, off + 1, Len(c))]} ELSE {})

\* download_single_file accepts a response: is_success() or PARTIAL_CONTENT,
\* RANGE_NOT_SATISFIABLE refused before.
Accepted(status) == status \in {"200", "206"}

\* download_single_file's resume offset: the size of the file at path, 0
\* when there is none.
ResumeOffset(f) == IF f = None THEN 0 ELSE Len(Get(f))

\* an attempt whose URL is always built from the first mirror
Attempt_FirstMirror ==
    /\ pc = "attempt"
    /\ retries > 0
    /\ \E c \in Contents :
       \E r \in GetResponses(c, ResumeOffset(disk)) :
            /\ attempts' = [attempts EXCEPT ![1] = @ + 1]
            /\ lateChunks' = 0
            /\ IF Accepted(r.status)
               THEN /\ pc' = "open"
                    /\ downloaded' = ResumeOffset(disk)
                    /\ body' = r.body
                    /\ served' = Some([content |-> c, status |-> r.status])
                    /\ before' = disk
                    /\ UNCHANGED error
               ELSE Err(r.status)
    /\ head_response' = None
    /\ UNCHANGED <<entry, disk, mi, file_size, expected_size, retries, failures, heads,
                   ret, should_stop, counters, others>>

\* The head of the while loop and download_single_file up to the status
\* checks: the resume offset, the GET, the answer.
Attempt ==
    /\ pc = "attempt"
    /\ retries > 0
    /\ \E c \in Contents :
       \E r \in GetResponses(c, ResumeOffset(disk)) :
            /\ attempts' = [attempts EXCEPT ![mi] = @ + 1]
            /\ lateChunks' = 0
            /\ IF Accepted(r.status)
               THEN /\ pc' = "open"
                    /\ downloaded' = ResumeOffset(disk)
                    /\ body' = r.body
                    /\ served' = Some([content |-> c, status |-> r.status])
                    /\ before' = disk
                    /\ UNCHANGED error
               ELSE Err(r.status)
    /\ head_response' = None
    /\ UNCHANGED <<entry, disk, mi, file_size, expected_size, retries, failures, heads,
                   ret, should_stop, counters, others>>

\* The file is opened (created if missing) for appending, then the position
\* is stored in the shared counter.
OpenFile(f) == IF f = None THEN Some(<<>>) ELSE f

Open ==
    /\ pc = "open"
    /\ \/ /\ Err("open")
          /\ UNCHANGED <<disk, downloaded_bytes>>
       \/ /\ disk' = OpenFile(disk)
          /\ downloaded_bytes' = downloaded
          /\ pc' = "stream"
          /\ UNCHANGED attempt
    /\ UNCHANGED <<entry, probe, budget, lateChunks, heads, ret, should_stop,
                   total_bytes, success, others>>

\* the read loop without the flag check at its head
Stream_Unchecked ==
    /\ pc = "stream"
    /\ pc' = "read"
    /\ UNCHANGED <<entry, disk, probe, xfer, heads, ret, should_stop, counters,
                   others>>

\* The head of the read loop: the flag.
Stream ==
    /\ pc = "stream"
    /\ IF should_stop THEN Err("interrupted") ELSE pc' = "read" /\ UNCHANGED attempt
    /\ UNCHANGED <<entry, disk, probe, budget, lateChunks, heads, ret, should_stop,
                   counters, others>>

\* write_all on a file opened with append(true)
WriteAll(f, chunk) == Some(Get(f) \o chunk)

\* One read of the body: an error, the end of the body (Ok), or a chunk of
\* at most BUFFER_SIZE bytes that is appended and counted.
Read ==
    /\ pc = "read"
    /\ \/ /\ Err("read")
          /\ UNCHANGED <<disk, downloaded_bytes, lateChunks>>
       \/ /\ body = <<>>
          /\ pc' = "after"
          /\ Dropped
          /\ UNCHANGED <<disk, downloaded_bytes, lateChunks, served, before, error>>
       \/ /\ body # <<>>
          /\ \E n \in 1..Min(BUFFER_SIZE, Len(body)) :
               /\ disk' = WriteAll(disk, SubSeq(body, 1, n))
               /\ body' = SubSeq(body, n + 1, Len(body))
               /\ downloaded' = downloaded + n
               /\ downloaded_bytes' = downloaded + n
          /\ lateChunks' = IF should_stop THEN lateChunks + 1 ELSE lateChunks
          /\ pc' = "stream"
          /\ UNCHANGED <<served, before, error>>
    /\ UNCHANGED <<entry, probe, budget, heads, ret, should_stop, total_bytes,
                   success, others>>

\* an Err arm that empties the partial file instead of removing it
Failed_Truncate ==
    /\ pc = "failed"
    /\ IF should_stop
       THEN /\ Return(FALSE, "stop")
            /\ UNCHANGED <<retries, disk, failures, error>>
       ELSE /\ retries' = retries - 1
            /\ disk' = Some(<<>>)
            /\ failures' = [failures EXCEPT ![mi] = @ + 1]
            /\ error' = ""
            /\ pc' = IF retries - 1 > 0 THEN "attempt" ELSE "after"
            /\ UNCHANGED ret
    /\ UNCHANGED <<entry, probe, attempts, downloaded, body, served, before,
                   lateChunks, heads, should_stop, counters, others>>

\* an Err arm that leaves the partial file where it is
Failed_KeepFile ==
    /\ pc = "failed"
    /\ IF should_stop
       THEN /\ Return(FALSE, "stop")
            /\ UNCHANGED <<retries, disk, failures, error>>
       ELSE /\ retries' = retries - 1
            /\ failures' = [failures EXCEPT ![mi] = @ + 1]
            /\ error' = ""
            /\ pc' = IF retries - 1 > 0 THEN "attempt" ELSE "after"
            /\ UNCHANGED <<ret, disk>>
    /\ UNCHANGED <<entry, probe, attempts, downloaded, body, served, before,
                   lateChunks, heads, should_stop, counters, others>>

\* an Err arm that removes the file but takes nothing from the budget
Failed_Unbounded ==
    /\ pc = "failed"
    /\ IF should_stop
       THEN /\ Return(FALSE, "stop")
            /\ UNCHANGED <<retries, disk, failures, error>>
       ELSE /\ disk' = None
            /\ failures' = [failures EXCEPT ![mi] = @ + 1]
            /\ error' = ""
            /\ pc' = "attempt"
            /\ UNCHANGED <<ret, retries>>
    /\ UNCHANGED <<entry, probe, attempts, downloaded, body, served, before,
                   lateChunks, heads, should_stop, counters, others>>

\* an Err arm that removes the file before it looks at the flag
Failed_RemoveFirst ==
    /\ pc = "failed"
    /\ disk' = None
    /\ IF should_stop
       THEN /\ Return(FALSE, "stop")
            /\ UNCHANGED <<retries, failures, error>>
       ELSE /\ retries' = retries - 1
            /\ failures' = [failures EXCEPT ![mi] = @ + 1]
            /\ error' = ""
            /\ pc' = IF retries - 1 > 0 THEN "attempt" ELSE "after"
            /\ UNCHANGED ret
    /\ UNCHANGED <<entry, probe, attempts, downloaded, body, served, before,
                   lateChunks, heads, should_stop, counters, others>>

\* The Err arm of the match: the flag, then the budget and remove_file.
Failed ==
    /\ pc = "failed"
    /\ IF should_stop
       THEN /\ Return(FALSE, "stop")
            /\ UNCHANGED <<retries, disk, failures, error>>
       ELSE /\ retries' = retries - 1
            /\ disk' = None
            /\ failures' = [failures EXCEPT ![mi] = @ + 1]
            /\ error' = ""
            /\ pc' = IF retries - 1 > 0 THEN "attempt" ELSE "after"
            /\ UNCHANGED ret
    /\ UNCHANGED <<entry, probe, attempts, downloaded, body, served, before,
                   lateChunks, heads, should_stop, counters, others>>

\* the code after the while loop without `if retries == 0`
After_Unchecked ==
    /\ pc = "after"
    /\ IF should_stop THEN Return(FALSE, "stop")
       ELSE IF expected_md5 # None THEN pc' = "verify" /\ UNCHANGED ret
       ELSE Return(TRUE, "downloaded")
    /\ UNCHANGED <<entry, disk, probe, xfer, heads, should_stop, counters, others>>

\* After the while loop: the flag, then `if retries == 0`.
After ==
    /\ pc = "after"
    /\ IF should_stop THEN Return(FALSE, "stop")
       ELSE IF retries = 0 THEN Return(FALSE, "retries")
       ELSE IF expected_md5 # None THEN pc' = "verify" /\ UNCHANGED ret
       ELSE Return(TRUE, "downloaded")
    /\ UNCHANGED <<entry, disk, probe, xfer, heads, should_stop, counters, others>>

\* a checksum mismatch that leaves the file in place
OnMismatch_Keep ==
    /\ Return(FALSE, "checksum")
    /\ UNCHANGED disk

\* `if actual != expected`: the log entry, remove_file, return false
OnMismatch ==
    /\ Return(FALSE, "checksum")
    /\ disk' = None

\* `if let Some(expected) = expected_md5`: the flag, then calculate_md5 (which
\* aborts on a missing file) and the comparison.
Verify ==
    /\ pc = "verify"
    /\ IF should_stop
       THEN Return(FALSE, "stop") /\ UNCHANGED disk
       ELSE IF disk = None
       THEN pc' = "panic" /\ UNCHANGED <<ret, disk>>
       ELSE IF calculate_md5(disk) # Get(expected_md5)
       THEN OnMismatch
       ELSE Return(TRUE, "downloaded") /\ UNCHANGED disk
    /\ UNCHANGED <<entry, probe, xfer, heads, should_stop, counters, others>>

\* ---- main.rs: after download_resources --------------------------------------
Stop ==
    /\ pc = "returned"
    /\ should_stop' = TRUE
    /\ pc' = "join"
    /\ UNCHANGED <<entry, disk, probe, xfer, heads, ret, counters, others>>

\* ---- io/util.rs: the handler setup_ctrlc installs ----------------------------
\* Where the download thread is when the handler runs: about to start an
\* entry, in the read loop of an attempt, or elsewhere.
Where(p) ==
    IF p \in {"loop", "entry"} THEN "start"
    ELSE IF p \in {"stream", "read"} THEN "stream"
    ELSE "other"

CtrlC ==
    /\ ~should_stop
    /\ should_stop' = TRUE
    /\ cancel' = [at |-> Where(pc), cur |-> cur, success |-> success]
    /\ UNCHANGED <<pc, entry, disk, probe, xfer, heads, ret, counters, inputs, rpc, title>>

\* ---- main.rs: join and print_results -----------------------------------------
\* a main that does not wait for the title thread
Join_NoWait ==
    /\ pc = "join"
    /\ pc' = "print"
    /\ UNCHANGED <<entry, disk, probe, xfer, heads, ret, should_stop, counters, others>>

Join ==
    /\ pc = "join"
    /\ rpc = "done"
    /\ pc' = "print"
    /\ UNCHANGED <<entry, disk, probe, xfer, heads, ret, should_stop, counters, others>>

PrintResults ==
    /\ pc = "print"
    /\ pc' = "exit"
    /\ UNCHANGED <<entry, disk, probe, xfer, heads, ret, should_stop, counters, others>>

\* ---- io/util.rs: the thread start_title_thread spawns ---------------------------
\* The head of its while loop: the flag.
TitleCheck ==
    /\ rpc = "check"
    /\ rpc' = IF should_stop THEN "done" ELSE "tick"
    /\ UNCHANGED <<pc, entry, disk, probe, xfer, heads, ret, should_stop, counters,
                   inputs, title, cancel>>

\* The body of the loop in one step: it loads the counters, builds the title
\* and sleeps; what it loaded is dropped with the iteration.
TitleTick ==
    /\ rpc = "tick"
    /\ rpc' = "check"
    /\ UNCHANGED <<pc, entry, disk, probe, xfer, heads, ret, should_stop, counters,
                   inputs, title, cancel>>

\* The body of the loop load by load, in the order of the source. The loaded
\* values live until the iteration ends.
TitleRest == <<pc, entry, disk, probe, xfer, heads, ret, should_stop, counters,
               inputs, cancel>>

TitleLoadDownloaded ==
    /\ rpc = "tick"
    /\ title' = [title EXCEPT !.downloaded_bytes = Some(downloaded_bytes)]
    /\ rpc' = "total"
    /\ UNCHANGED TitleRest

TitleLoadTotal ==
    /\ rpc = "total"
    /\ title' = [title EXCEPT !.total_bytes = Some(total_bytes)]
    /\ rpc' = "success"
    /\ UNCHANGED TitleRest

\* a title thread that was given a copy of the counter made at spawn time
TitleLoadSuccess_Copy ==
    /\ rpc = "success"
    /\ title' = [title EXCEPT !.current_success = Some(0)]
    /\ rpc' = "sleep"
    /\ UNCHANGED TitleRest

TitleLoadSuccess ==
    /\ rpc = "success"
    /\ title' = [title EXCEPT !.current_success = Some(success)]
    /\ rpc' = "sleep"
    /\ UNCHANGED TitleRest

\* The arithmetic of the title, on the values the iteration loaded and the
\* seconds elapsed. The operands are usize: a difference below 0 is an
\* underflow.
Speed(bytes, elapsed_secs) ==
    IF elapsed_secs > 0 THEN bytes \div elapsed_secs ELSE 0

RemainingFiles(total, current_success) == total - current_success

\* the divisors of the divisions that building the title evaluates
Divisors(bytes, total, current_success, elapsed_secs) ==
    LET speed == Speed(bytes, elapsed_secs)
        remaining_files == RemainingFiles(total_files, current_success)
    IN  (IF elapsed_secs > 0 THEN {elapsed_secs} ELSE {})
        \cup (IF speed > 0 /\ remaining_files > 0 THEN {speed} ELSE {})
        \cup (IF total > 0 THEN {total} ELSE {})

\* The title is built and set, the thread sleeps, the iteration ends.
TitleSleep ==
    /\ rpc = "sleep"
    /\ title' = NotLoaded
    /\ rpc' = "check"
    /\ UNCHANGED TitleRest

Download ==
    \/ Loop \/ Ret \/ Entry \/ Probe \/ Precheck \/ Mirror \/ Attempt \/ Open
    \/ Stream \/ Read \/ Failed \/ After \/ Verify

\* The whole program: the main thread, the handler and the title thread.
Next == Download \/ Stop \/ Join \/ PrintResults \/ CtrlC \/ TitleCheck \/ TitleTick

Spec == Init /\ [][Next]_vars

\* The download of a manifest of one entry. The title thread only loads the
\* shared atomics and writes none of them, so it is left out of the steps.
InitOne == Init /\ total_files = 1
NextOne == Download \/ Stop \/ CtrlC
SpecOne == InitOne /\ [][NextOne]_vars

\* The whole program on a manifest of one entry, its threads scheduled
\* fairly: a thread that can take a step eventually takes one (the sleep of
\* the title thread ends, join returns once the thread has finished). The
\* handler runs only if the user presses Ctrl-C.
MainThread == Download \/ Stop \/ Join \/ PrintResults
SpecLive ==
    /\ InitOne /\ [][Next]_vars
    /\ WF_vars(MainThread)
    /\ WF_vars(TitleCheck \/ TitleTick)

\* The download of a manifest of one entry with the title thread taken load
\* by load.
TitleThread ==
    \/ TitleCheck \/ TitleLoadDownloaded \/ TitleLoadTotal \/ TitleLoadSuccess
    \/ TitleSleep
NextTitle == Download \/ Stop \/ Join \/ PrintResults \/ CtrlC \/ TitleThread
SpecTitle == InitOne /\ [][NextTitle]_vars

\* check_existing_file by itself, called on any file with any expectations.
Md5Strings == {Md5(c) : c \in Contents} \cup {Upper(Md5(c)) : c \in Contents}

InitCheck ==
    /\ pc = "check"
    /\ disk \in LocalFiles
    /\ expected_md5 \in {None} \cup {Some(h) : h \in Md5Strings}
    /\ expected_size \in {None} \cup {Some(n) : n \in 0..MaxLen}
    /\ total_size = 0 /\ total_bytes = 0
    /\ total_files = 1 /\ zip_bases = 1 /\ cur = 1
    /\ Fresh

CheckExistingFile ==
    /\ pc = "check"
    /\ result' = check_existing_file(disk, expected_md5, expected_size)
    /\ pc' = "checked"
    /\ UNCHANGED <<entry, disk, probe, xfer, heads, why, log, should_stop, counters,
                   others>>

SpecCheck == InitCheck /\ [][CheckExistingFile]_vars

\* ---- the URLs ------------------------------------------------------------
\* Strings are sequences of characters. The runs above follow what is sent
\* and answered, not how the URL is spelt; the spelling is followed here, for
\* one entry on one mirror: the pre-pass, then the two loops of
\* download_file, then download_single_file with the URL of the second loop.
StringsOver(chars) == UNION {[1..n -> chars] : n \in 1..MaxUrl}

\* dest.replace('\\', "/")
Replace(str) == [i \in 1..Len(str) |-> IF str[i] = "\\" THEN "/" ELSE str[i]]

\* calculate_total_size: format!("{}/{}", base_url, dest), dest as in the
\* manifest
PrePassFormat(base, d) == base \o <<"/">> \o d

\* download_file: format!("{}{}", base_url, dest), dest after replace
DownloadFormat(base, d) == base \o Replace(d)

InitUrl ==
    /\ pc = "prepass"
    /\ base_url \in StringsOver({"h", "/"})
    /\ dest \in StringsOver({"a", "/", "\\"})
    /\ requested = <<>>
    /\ total_files = 1 /\ zip_bases = 1 /\ total_size = 0 /\ total_bytes = 0
    /\ cur = 1 /\ expected_md5 = None /\ disk = None /\ expected_size = None
    /\ mi = 1 /\ head_response = None /\ file_size = None /\ retries = 0
    /\ downloaded = 0 /\ body = <<>> /\ result = FALSE /\ log = <<>>
    /\ should_stop = FALSE /\ downloaded_bytes = 0 /\ success = 0
    /\ rpc = "check" /\ title = NotLoaded /\ why = "" /\ cancel = NotCancelled
    /\ lateChunks = 0 /\ heads = 0 /\ attempts = NoAttempts
    /\ failures = NoAttempts /\ served = None /\ before = None /\ error = ""

UrlRest == <<entry, disk, probe, xfer, heads, ret, should_stop, counters,
             total_files, zip_bases, total_size, base_url, dest, rpc, title, cancel>>

\* calculate_total_size: client.head(&url)
PrePassHead ==
    /\ pc = "prepass"
    /\ requested' = Append(requested, PrePassFormat(base_url, dest))
    /\ pc' = "probe"
    /\ UNCHANGED UrlRest

\* download_file, first loop: client.head(&url)
ProbeHead ==
    /\ pc = "probe"
    /\ requested' = Append(requested, DownloadFormat(base_url, dest))
    /\ pc' = "mirror"
    /\ UNCHANGED UrlRest

\* download_file, second loop: client.head(&url)
MirrorHead ==
    /\ pc = "mirror"
    /\ requested' = Append(requested, DownloadFormat(base_url, dest))
    /\ pc' = "attempt"
    /\ UNCHANGED UrlRest

\* download_single_file: client.get(url), url being that of the second loop
AttemptGet ==
    /\ pc = "attempt"
    /\ requested' = Append(requested, requested[Len(requested)])
    /\ pc' = "sent"
    /\ UNCHANGED UrlRest

NextUrl == PrePassHead \/ ProbeHead \/ MirrorHead \/ AttemptGet
SpecUrl == InitUrl /\ [][NextUrl]_vars

\* calculate_total_size over a manifest of one entry: the content-length of
\* the first mirror that answers with one, 0 when none does.
PrePassTotals == 0..MaxLen

\* The download of a manifest of one entry after any pre-pass.
InitSized == total_files = 1 /\ \E size \in PrePassTotals : Begin(size)
SpecSized == InitSized /\ [][NextOne]_vars
\* ==== the claims ==============================================================
MainEnd == {"returned", "join", "print", "exit"}

\* the size download_file knows for the entry when it returns
KnownSize == IF expected_size # None THEN expected_size ELSE file_size

HasHash(f, md5) == f # None /\ calculate_md5(f) = Get(md5)
HasSize(f, size) == f # None /\ (size # None => Len(Get(f)) = Get(size))

AllProbesAnswered == heads = 2 /\ mi = 1

\* C2 as stated: when every mirror answers the probe, every GET to the
\* first K-1 mirrors fails and none to the last mirror does, download_file
\* returns success from the last mirror after at most MAX_RETRIES attempts
\* against each failing mirror.
C2_Original ==
    ( /\ pc = "ret" /\ ~should_stop /\ why # "dir"
      /\ zip_bases > 1 /\ AllProbesAnswered
      /\ \A m \in 1..(zip_bases - 1) : attempts[m] > 0 /\ failures[m] = attempts[m]
      /\ failures[zip_bases] = 0 )
    => /\ result
       /\ attempts[zip_bases] > 0
       /\ \A m \in Mirrors : attempts[m] <= MAX_RETRIES

\* C3 as stated: a checksum mismatch on a mirror that has a successor does
\* not end the file: download_file goes on to the next mirror.
C3_Original ==
    (pc = "ret" /\ why = "checksum") => mi = zip_bases

\* C4: with a single mirror, a transfer that succeeds with the wrong hash
\* ends in failure with the file deleted, and the GET of that transfer was
\* the last one sent: every attempt before it had failed, none follows it.
C4_MismatchIsFinal ==
    (pc = "ret" /\ why = "checksum" /\ zip_bases = 1) =>
        /\ ~result
        /\ disk = None
        /\ attempts[1] = failures[1] + 1
        /\ attempts[1] <= MAX_RETRIES

C4_Witness ==
    pc = "ret" /\ why = "checksum" /\ zip_bases = 1 /\ attempts[1] = 1

\* C5: once the flag is set while an attempt is in its read loop, the
\* attempt writes at most one more chunk, and download_file returns failure.
C5_StopWhileStreaming ==
    /\ lateChunks <= 1
    /\ (pc = "ret" /\ cancel.at = "stream") => ~result

\* the flag came while a chunk was being read: the chunk was written, and the
\* file is reported as failed
C5_Witness ==
    pc = "ret" /\ cancel.at = "stream" /\ lateChunks = 1 /\ ~result

\* C6: an entry that is about to start when the flag is set returns failure
\* at once, without a request; no later entry is started, and the success
\* count takes no file beyond the one that was in progress.
C6_NoStartAfterStop ==
    cancel # NotCancelled =>
        /\ (cancel.at = "start" /\ cur = cancel.cur /\ pc \notin {"loop", "entry"})
              => /\ pc \in {"ret"} \cup MainEnd
                 /\ pc = "ret" => (~result /\ heads = 0 /\ attempts = NoAttempts)
        /\ cur > cancel.cur => pc \in {"loop"} \cup MainEnd
        /\ success <= cancel.success + (IF cancel.at = "start" THEN 0 ELSE 1)

C6_Witness ==
    /\ pc = "ret" /\ cancel.at = "start" /\ cur = cancel.cur /\ cur < total_files

\* C7 as stated: once the flag is set, no HEAD and no GET is sent.
C7_Original ==
    [][should_stop =>
         /\ heads' <= heads
         /\ \A m \in Mirrors : attempts'[m] <= attempts[m]]_vars

\* the bytes the local file held when the attempt started
Prefix == IF before = None THEN <<>> ELSE Get(before)

\* C8 as stated: when the local file holds the first N bytes of the content
\* the mirror serves and the attempt reports success, those N bytes are
\* still in place and the file is the content, as after a fresh download.
C8_Original ==
    ( /\ pc = "after" /\ served # None
      /\ Len(Prefix) <= Len(Get(served).content)
      /\ Prefix = SubSeq(Get(served).content, 1, Len(Prefix)) )
    => /\ disk # None
       /\ SubSeq(Get(disk), 1, Len(Prefix)) = Prefix
       /\ Get(disk) = Get(served).content

\* C9 as stated: the position an attempt stores in the progress counter
\* does not exceed the discovered size, taken here as the size of the
\* content the mirror serves.
C9_Original ==
    ( /\ pc \in {"stream", "read"}
      /\ expected_size # None
      /\ Get(expected_size) = Len(Get(served).content) )
    => downloaded <= Get(expected_size)

\* C10 as stated: downloaded_bytes never decreases.
C10_Original == [][downloaded_bytes' >= downloaded_bytes]_vars

\* the sizes discovered for the entry download_file has returned from
DiscoveredSize == IF KnownSize = None THEN 0 ELSE Get(KnownSize)

\* C11 as stated: once the (only) entry has been processed, total_bytes is
\* the discovered size of the entry, counted once. The mirrors are taken to
\* give the pre-pass the size they give download_file.
C11_Original ==
    (pc = "ret" /\ ~should_stop /\ total_size = DiscoveredSize)
        => total_bytes = DiscoveredSize

\* the title thread has just loaded the counter named by field f of title
Loaded(old, new) == new # old /\ new # None

\* C12: with download_resources as the only writer, the title thread's loads
\* of downloaded_bytes and success return the value last stored, a loaded
\* success count never runs ahead of the counter, and when the loop has
\* returned success is the number of download_file calls that returned true
\* (one entry: 1 or 0).
C12_NoLostUpdate ==
    /\ [](/\ title.current_success # None => Get(title.current_success) <= success
          /\ pc \in MainEnd => success = (IF result THEN 1 ELSE 0))
    /\ [][/\ Loaded(title.downloaded_bytes, title'.downloaded_bytes)
               => title'.downloaded_bytes = Some(downloaded_bytes)
          /\ Loaded(title.current_success, title'.current_success)
               => title'.current_success = Some(success)
          /\ success' # success => (pc = "ret" /\ result /\ success' = success + 1)]_vars

\* an iteration that loaded a position after the first chunk and the count
\* after the entry was counted
C12_Witness ==
    /\ rpc = "sleep"
    /\ title.current_success = Some(1)
    /\ title.downloaded_bytes # Some(0)

\* C13: whatever download_file returned, the loop goes on to the next entry;
\* download_file is entered for the entry the loop is at, only from the head
\* of the loop, and without cancellation the loop returns only when it is
\* past the last entry.
C13_BatchContinues ==
    /\ []((pc = "returned" /\ ~should_stop) => cur = total_files + 1)
    /\ [][/\ (pc = "ret" /\ pc' # pc) => (pc' = "loop" /\ cur' = cur + 1)
          /\ (pc' = "entry" /\ pc # "entry")
               => (pc = "loop" /\ cur' = cur /\ cur <= total_files)
          /\ cur' # cur => (cur' = cur + 1 /\ pc \in {"ret", "loop"})]_vars

\* download_file is entered for the second entry after it was entered for
\* the first (its probe found a size) and returned failure
C13_Witness ==
    /\ pc = "entry" /\ cur = 2
    /\ ~should_stop /\ success = 0 /\ total_bytes > 0

\* C14: once download_resources has returned, main sets the flag, the title
\* thread eventually sees it and ends, and print_results runs only after the
\* thread has ended and join has returned.
C14_StopJoinReport ==
    /\ [](pc \in {"join", "print", "exit"} => should_stop)
    /\ [](pc \in {"print", "exit"} => rpc = "done")
    /\ (pc = "returned") ~> (rpc = "done")

\* the results are about to be printed, the title thread having been
\* stopped by main and not by Ctrl-C
C14_Witness ==
    pc = "print" /\ rpc = "done" /\ cancel = NotCancelled

\* the positions of the main thread inside a download_file call
InDownloadFile ==
    {"entry", "probe", "precheck", "mirror", "attempt", "open", "stream", "read",
     "failed", "after", "verify"}

\* C15 as stated: the title thread does not end while a download_file call
\* is in progress; it ends only after the loop has returned and main has
\* stopped it.
C15_Original ==
    rpc = "done" => pc \notin InDownloadFile

\* the file at the path has the size and the md5 of the entry
Satisfies(size) ==
    /\ expected_md5 # None /\ size # None
    /\ HasHash(disk, expected_md5)
    /\ Len(Get(disk)) = Get(size)

\* what a pre-check that passes does: success, no GET, the file untouched
ShortCircuit ==
    /\ pc' = "ret" /\ result'
    /\ disk' = disk
    /\ attempts' = NoAttempts

\* C16: when the md5 and the probed size are known and the local file has
\* that size and that md5, the pre-check returns success without a GET and
\* leaves the file as it is: with the size of the first loop at the first
\* pre-check, with the size of the mirror's HEAD at the second.
C16_PrecheckShortCircuit ==
    /\ []((pc = "ret" /\ why = "valid") => (result /\ attempts = NoAttempts))
    /\ [][/\ (pc = "precheck" /\ pc' # pc /\ Satisfies(file_size)) => ShortCircuit
          /\ (pc = "mirror" /\ expected_size' # None /\ Satisfies(expected_size'))
               => ShortCircuit]_vars

\* the second pre-check let a local file through that the first loop had
\* found no size for
C16_Witness ==
    /\ pc = "ret" /\ why = "valid" /\ result
    /\ file_size = None /\ expected_size # None /\ disk # None

\* download_file has returned from the scenario of C17: the md5 of the entry
\* is that of the empty content, the probe of the first loop said 0 bytes,
\* no HEAD failed, no attempt failed, the mirror served the empty content,
\* the path held no file or an empty one, nothing was cancelled and the
\* directory could be made.
EmptyFileScenario ==
    /\ pc = "ret" /\ ~should_stop /\ why # "dir"
    /\ expected_md5 = Some(Md5(<<>>))
    /\ file_size = Some(0)
    /\ mi = 1 /\ heads <= 2
    /\ failures = NoAttempts
    /\ served # None => Get(served).content = <<>>
    /\ before \in {None, Some(<<>>)}

\* C17: in that scenario download_file returns success with an empty file
\* at the path: through the pre-check and without a GET when an empty file
\* was there, else through one transfer of zero bytes that creates the file
\* and a verification that passes.
C17_EmptyFile ==
    EmptyFileScenario =>
        /\ result
        /\ disk = Some(<<>>)
        /\ why \in {"valid", "downloaded"}
        /\ why = "valid" => attempts = NoAttempts
        /\ why = "downloaded" =>
              (before = None /\ attempts[1] = 1 /\ downloaded_bytes = 0)

C17_Witness ==
    EmptyFileScenario /\ why = "downloaded" /\ before = None

\* C18: check_existing_file is false when there is no file at the path; for
\* a file that is there it is true exactly when each expectation that is
\* given holds, the size as a number and the md5 as the string
\* calculate_md5 returns; an expectation that is not given is ignored.
C18_CheckExistingFile ==
    pc = "checked" =>
        result = ( /\ disk # None
                   /\ expected_size # None => Len(Get(disk)) = Get(expected_size)
                   /\ expected_md5 # None => Md5(Get(disk)) = Get(expected_md5) )

\* a file checked with no expectation at all
C18_Witness ==
    /\ pc = "checked" /\ result
    /\ disk # None /\ expected_md5 = None /\ expected_size = None

\* the log entries download_file wrote about transfers: all but the "CDN i
\* failed" entries of the HEAD requests
TransferEntries == {i \in DOMAIN log : log[i] # "cdn"}

\* C19 as stated: when download_file is done with a mirror whose GET failed
\* MAX_RETRIES times, the log holds MAX_RETRIES entries for these failures.
C19_Original ==
    (pc = "ret" /\ \E m \in Mirrors : failures[m] = MAX_RETRIES)
        => Cardinality(TransferEntries) = MAX_RETRIES

\* C20: transfers are sequential and in order. At any time at most one
\* attempt has not ended in failure, and it is against the mirror of the
\* loop; the attempts against every other mirror have ended and no mirror
\* after it has been sent a GET. A GET is sent only by the retry loop, to the
\* mirror of the loop, when every earlier attempt against it has returned
\* failure. The entries are taken one by one in manifest order.
C20_Sequential ==
    /\ [](\A m \in Mirrors :
            /\ attempts[m] - failures[m] \in {0, 1}
            /\ m # mi => attempts[m] = failures[m]
            /\ m > mi => attempts[m] = 0)
    /\ [][/\ \A m \in Mirrors :
               attempts'[m] > attempts[m]
                 => /\ pc = "attempt" /\ m = mi
                    /\ attempts[m] = failures[m]
                    /\ attempts'[m] = attempts[m] + 1
          /\ cur' # cur => cur' = cur + 1]_vars

\* the second attempt against the second mirror is in flight, for the second
\* entry
C20_Witness ==
    /\ pc = "read" /\ cur = 2 /\ mi = 2
    /\ attempts = <<0, 2>> /\ failures = <<0, 1>>

\* the positions of the main thread inside a download_single_file call
\* whose GET was accepted
InAttempt == {"open", "stream", "read"}

\* the size of a file, 0 for a missing one
SizeOf(f) == IF f = None THEN 0 ELSE Len(Get(f))

C22_Original ==
    (head_response # None /\ Get(head_response).len # None)
        => expected_size = Get(head_response).len

C24_Original ==
    \A i \in DOMAIN requested : requested[i] = base_url \o Replace(dest)

\* the positions of the main thread inside the second loop over zip_bases
SecondLoop ==
    {"mirror", "attempt", "open", "stream", "read", "failed", "after", "verify"}

\* C25: a download_file call that was entered returns, and the download loop
\* ends, whatever the mirrors answer; on the way each mirror is sent at most
\* MAX_RETRIES GETs, each of the two loops sends a mirror at most one HEAD,
\* and the second loop never goes back to an earlier mirror.
C25_Terminates ==
    /\ [](/\ \A m \in Mirrors : attempts[m] <= MAX_RETRIES
          /\ heads <= 2 * zip_bases
          /\ pc \in SecondLoop => mi \in 1..(zip_bases + 1))
    /\ [][(pc \in SecondLoop /\ pc' \in SecondLoop) => mi' >= mi]_vars
    /\ (pc = "entry") ~> (pc = "ret")
    /\ <>(pc = "returned")

\* download_file has returned after every HEAD of both loops was sent and
\* the last mirror had used up its budget of GETs
C25_Witness ==
    /\ pc = "ret" /\ why = "retries"
    /\ zip_bases = NMirrors /\ mi = zip_bases
    /\ heads = 2 * zip_bases /\ attempts[mi] = MAX_RETRIES

\* C26 as stated: when the local file already has the expected hash, no size
\* was known to pre-check it, and the resumed GET is refused with 416, the
\* Err arm leaves the file as it is.
C26_Original ==
    [][(/\ pc = "failed" /\ error = "416"
        /\ expected_size = None
        /\ expected_md5 # None /\ HasHash(disk, expected_md5))
            => disk' = disk]_vars

\* C27: success never exceeds the number of entries the loop has finished,
\* which never exceeds total_files; so total_files - current_success, on the
\* value the title thread loaded, is never below 0, and no division of the
\* title divides by 0, whatever the time elapsed and however the loads
\* interleave with the download loop.
C27_ReporterArithmetic ==
    /\ success <= cur - 1
    /\ cur - 1 <= total_files
    /\ title.current_success # None
         => RemainingFiles(total_files, Get(title.current_success)) >= 0
    /\ rpc = "sleep"
         => \A elapsed_secs \in 0..MaxSecs :
              0 \notin Divisors(Get(title.downloaded_bytes), Get(title.total_bytes),
                                Get(title.current_success), elapsed_secs)

\* the title is built from a count that equals total_files (no file
\* remains) and from a position above 0 (the speed can be above 0)
C27_Witness ==
    /\ rpc = "sleep"
    /\ title.current_success = Some(total_files)
    /\ Get(title.downloaded_bytes) > 0

\* C28: calculate_md5 and the unwrapped remove_file of the verification run
\* only on a file that exists, so download_file never aborts there; on a
\* missing file the pre-checks answer "download" without opening it.
C28_NoAbort ==
    /\ pc # "panic"
    /\ pc = "verify" => disk # None
    /\ (pc = "precheck" /\ disk = None)
         => ~should_skip_download(disk, expected_md5, file_size)
    /\ (pc = "mirror" /\ disk = None)
         => \A n \in 0..MaxLen : ~check_existing_file(disk, expected_md5, Some(n))

\* the verification is reached on a file that the last attempt created,
\* the attempts before it having failed and removed what they wrote
C28_Witness ==
    /\ pc = "verify" /\ ~should_stop
    /\ before = None
    /\ failures[mi] = MAX_RETRIES - 1

\* C29: when the flag is set as the Err arm is entered, download_file
\* returns false and the file at the path is left as the attempt left it;
\* after an interrupted transfer it holds the bytes written so far, whose
\* number is the offset the next run resumes from.
C29_StopKeepsFile ==
    /\ []((pc = "ret" /\ error # "") => (~result /\ why = "stop"))
    /\ []((pc = "ret" /\ error = "interrupted")
            => (disk # None /\ ResumeOffset(disk) = downloaded_bytes))
    /\ [][(pc = "failed" /\ should_stop)
            => (pc' = "ret" /\ ~result' /\ disk' = disk)]_vars

\* Ctrl-C came during the read loop of an attempt that had written a byte
\* and had more to read; download_file returned and the byte is on disk
C29_Witness ==
    /\ pc = "ret" /\ why = "stop" /\ error = "interrupted"
    /\ cancel.at = "stream"
    /\ disk = Some(<<1>>) /\ downloaded_bytes = 1
    /\ file_size = Some(MaxLen)
====
